---- MODULE Spec2Model ----
(***************************************************************************)
(* A model of src/app.py: the CodeAnalyzer class of the AI code explainer  *)
(* (language detection, input validation, prompt construction and the      *)
(* call of the hosted model) and the Streamlit script main that calls it   *)
(* (code analysis, file upload, follow-up questions and the session's      *)
(* analysis history).                                                      *)
(*                                                                         *)
(* Spec is the analyzer called method by method; SpecUI is the script run  *)
(* once per user event.                                                    *)
(*                                                                         *)
(* Python strings are TLA+ strings; the string operations of the source    *)
(* (lower, strip, split, in, len, +) are computed character by character.  *)
(* Two characters of the source cannot be written inside a TLA+ string     *)
(* literal: the backquote and the cross mark U+274C.  A markdown fence     *)
(* (three backquotes) is written FENCE and the cross mark is written       *)
(* CROSS; both stand-ins use characters that occur nowhere else in the     *)
(* texts of the model.                                                     *)
(*                                                                         *)
(* An optional value (None or a value) is a sequence of length 0 or 1.     *)
(***************************************************************************)
EXTENDS Integers, Sequences, FiniteSets, TLC

VARIABLES
    model,         \* self.model: None or the GenerativeModel client
    pc,            \* "idle", or "returned" after a method has returned
    op,            \* the method that was called
    args,          \* its arguments
    ret,           \* the value it returned
    guess_called,  \* guess_lexer was called during the call
    scan_called,   \* analyze_code_content was called during the call
    warned,        \* st.warning was raised during the call
    sent,          \* the prompts handed to model.generate_content during the call
    answered,      \* what generate_content did for each of them
    analysis_history,  \* st.session_state.analysis_history
    uploaded_files,    \* the files held by the file uploader of the second tab
    detect_lengths,    \* len(code) of each call of detect_language made by a run of main
    called             \* the arguments of the call of process_code made by a run of main

vars == <<model, pc, op, args, ret, guess_called, scan_called, warned, sent, answered,
          analysis_history, uploaded_files, detect_lengths, called>>

\* what a call of a method of the analyzer leaves alone
session == <<analysis_history, uploaded_files, detect_lengths, called>>

-----------------------------------------------------------------------------
(* Python values and string operations                                     *)

None == <<>>
Some(v) == <<v>>

FENCE == "~~~"
CROSS == "(X)"

MAX_CODE_LENGTH == 50000

Min(S) == CHOOSE m \in S : \A n \in S : m <= n

\* pattern in text
Contains(text, pattern) ==
    \E i \in 1..(Len(text) - Len(pattern) + 1) :
        SubSeq(text, i, i + Len(pattern) - 1) = pattern

\* text.startswith(prefix)
StartsWith(text, prefix) ==
    Len(text) >= Len(prefix) /\ SubSeq(text, 1, Len(prefix)) = prefix

UpperToLower ==
    [c \in {"A", "B", "C", "D", "E", "F", "G", "H", "I", "J", "K", "L", "M",
            "N", "O", "P", "Q", "R", "S", "T", "U", "V", "W", "X", "Y", "Z"} |->
        CASE c = "A" -> "a" [] c = "B" -> "b" [] c = "C" -> "c" [] c = "D" -> "d"
          [] c = "E" -> "e" [] c = "F" -> "f" [] c = "G" -> "g" [] c = "H" -> "h"
          [] c = "I" -> "i" [] c = "J" -> "j" [] c = "K" -> "k" [] c = "L" -> "l"
          [] c = "M" -> "m" [] c = "N" -> "n" [] c = "O" -> "o" [] c = "P" -> "p"
          [] c = "Q" -> "q" [] c = "R" -> "r" [] c = "S" -> "s" [] c = "T" -> "t"
          [] c = "U" -> "u" [] c = "V" -> "v" [] c = "W" -> "w" [] c = "X" -> "x"
          [] c = "Y" -> "y" [] c = "Z" -> "z"]

\* text.lower(), by halves so that long texts stay shallow
RECURSIVE Lower(_)
Lower(text) ==
    IF Len(text) = 0 THEN ""
    ELSE IF Len(text) = 1
         THEN IF text \in DOMAIN UpperToLower THEN UpperToLower[text] ELSE text
         ELSE LET h == Len(text) \div 2
              IN  Lower(SubSeq(text, 1, h)) \o Lower(SubSeq(text, h + 1, Len(text)))

Whitespace == {" ", "\t", "\n", "\r", "\f"}

\* text.strip()
Strip(text) ==
    LET n == Len(text)
        ws(i) == SubSeq(text, i, i) \in Whitespace
    IN  IF \A i \in 1..n : ws(i)
        THEN ""
        ELSE SubSeq(text,
                    CHOOSE i \in 1..n : ~ws(i) /\ \A j \in 1..(i - 1) : ws(j),
                    n - (CHOOSE k \in 0..(n - 1) :
                             ~ws(n - k) /\ \A j \in 0..(k - 1) : ws(n - j)))

\* text.split('.')[-1]
LastField(text) ==
    LET dots == {i \in 1..Len(text) : SubSeq(text, i, i) = "."}
    IN  IF dots = {} THEN text
        ELSE SubSeq(text, (CHOOSE m \in dots : \A n \in dots : n <= m) + 1, Len(text))

\* a dict literal is the sequence of its <<key, value>> pairs, in source order
Keys(dict) == {dict[i][1] : i \in 1..Len(dict)}
Get(dict, key) == dict[CHOOSE i \in 1..Len(dict) : dict[i][1] = key][2]

-----------------------------------------------------------------------------
(* CodeAnalyzer.detect_language                                            *)

ext_map == <<
    <<"py", "python">>,
    <<"js", "javascript">>, <<"jsx", "javascript">>,
    <<"ts", "javascript">>, <<"tsx", "javascript">>,
    <<"cpp", "cpp">>, <<"cxx", "cpp">>, <<"cc", "cpp">>,
    <<"c", "cpp">>, <<"h", "cpp">>, <<"hpp", "cpp">>,
    <<"java", "java">>,
    <<"html", "html">>, <<"htm", "html">>,
    <<"css", "css">>, <<"scss", "css">>, <<"sass", "css">>, <<"less", "css">>,
    <<"php", "php">>, <<"php3", "php">>, <<"php4", "php">>, <<"php5", "php">> >>

language_map == <<
    <<"python", "python">>, <<"python3", "python">>, <<"py", "python">>,
    <<"py3", "python">>, <<"sage", "python">>, <<"python3traceback", "python">>,
    <<"pytb", "python">>, <<"py3tb", "python">>,
    <<"javascript", "javascript">>, <<"js", "javascript">>, <<"jsx", "javascript">>,
    <<"node", "javascript">>, <<"javascript+genshi", "javascript">>,
    <<"js+genshi", "javascript">>, <<"genshi", "javascript">>,
    <<"c++", "cpp">>, <<"cpp", "cpp">>, <<"cxx", "cpp">>, <<"cc", "cpp">>,
    <<"c", "cpp">>, <<"arduino", "cpp">>, <<"cuda", "cpp">>,
    <<"java", "java">>,
    <<"html", "html">>, <<"htm", "html">>, <<"html+genshi", "html">>,
    <<"html+kid", "html">>, <<"html+smarty", "html">>, <<"html+velocity", "html">>,
    <<"rhtml", "html">>, <<"html+django", "html">>, <<"html+jinja", "html">>,
    <<"htmldjango", "html">>,
    <<"css", "css">>, <<"scss", "css">>, <<"sass", "css">>, <<"less", "css">>,
    <<"stylus", "css">>, <<"css+genshi", "css">>, <<"css+django", "css">>,
    <<"css+jinja", "css">>,
    <<"php", "php">>, <<"php3", "php">>, <<"php4", "php">>, <<"php5", "php">>,
    <<"html+php", "php">>,
    <<"sql", "python">>, <<"mysql", "python">>, <<"postgresql", "python">>,
    <<"sqlite3", "python">>, <<"plpgsql", "python">>, <<"tsql", "python">> >>

\* file_ext with the call of lower() left out
file_ext_NoLower(filename) ==
    IF Contains(filename, ".") THEN LastField(filename) ELSE ""

\* file_ext = filename.lower().split('.')[-1] if '.' in filename else ''
file_ext(filename) ==
    IF Contains(filename, ".") THEN LastField(Lower(filename)) ELSE ""

\* if filename: ... if file_ext in ext_map
ext_hit(filename) ==
    /\ filename # None
    /\ filename[1] # ""
    /\ file_ext(filename[1]) \in Keys(ext_map)

-----------------------------------------------------------------------------
(* CodeAnalyzer.analyze_code_content                                       *)

js_patterns == <<
    "function(", "const ", "let ", "var ", "=>", "console.log",
    "document.", "window.", "$(", "jquery", "react", "angular",
    "npm", "node", "express", "async/await", ".then(", ".catch(",
    "export ", "import ", "require(" >>

python_patterns == <<
    "def ", "import ", "from ", "print(", "if __name__",
    "class ", "self.", "elif ", "__init__", "lambda ",
    "range(", "len(", "str(", "int(", "float(", "list(",
    "dict(", "tuple(", "set(" >>

java_patterns == <<
    "public class", "private ", "public ", "static void main",
    "system.out.println", "string[]", "arraylist", "hashmap",
    "public static", "extends ", "implements ", "interface " >>

cpp_patterns == <<
    "#include", "std::", "cout", "cin", "namespace ",
    "using namespace", "int main()", "class ", "template<",
    "#define", "#ifndef", "#ifdef", "vector<", "string " >>

html_patterns == <<
    "<!doctype", "<html", "<head>", "<body>", "<div", "<span",
    "<p>", "<a href", "<img", "<script", "<style", "<link" >>

css_patterns == <<
    "{", "}", "color:", "background:", "font-", "margin:",
    "padding:", "border:", "width:", "height:", "@media",
    "display:", "position:", "flex", "grid" >>

php_patterns == <<
    "<?php", "$_", "echo ", "function ", "class ", "public function",
    "private function", "protected function", "$this->", "array(",
    "mysqli", "pdo", "include ", "require " >>

\* sum(1 for pattern in patterns if pattern in code_lower)
CountMatches(patterns, code_lower) ==
    Cardinality({i \in 1..Len(patterns) : Contains(code_lower, patterns[i])})

\* the pattern_counts dict, in its insertion order
pattern_counts(code_lower) == <<
    <<"javascript", CountMatches(js_patterns, code_lower)>>,
    <<"python", CountMatches(python_patterns, code_lower)>>,
    <<"java", CountMatches(java_patterns, code_lower)>>,
    <<"cpp", CountMatches(cpp_patterns, code_lower)>>,
    <<"html", CountMatches(html_patterns, code_lower)>>,
    <<"css", CountMatches(css_patterns, code_lower)>>,
    <<"php", CountMatches(php_patterns, code_lower)>> >>

\* select_language accepting a single match
select_language_Min1(counts) ==
    LET max_count == CHOOSE m \in {counts[i][2] : i \in 1..Len(counts)} :
                         \A i \in 1..Len(counts) : counts[i][2] <= m
    IN  IF max_count >= 1
        THEN Some(counts[Min({i \in 1..Len(counts) : counts[i][2] = max_count})][1])
        ELSE None

\* select_language keeping the last language that has the maximum
select_language_LastMax(counts) ==
    LET max_count == CHOOSE m \in {counts[i][2] : i \in 1..Len(counts)} :
                         \A i \in 1..Len(counts) : counts[i][2] <= m
        at_max == {i \in 1..Len(counts) : counts[i][2] = max_count}
    IN  IF max_count >= 2
        THEN Some(counts[CHOOSE i \in at_max : \A j \in at_max : j <= i][1])
        ELSE None

\* if max_count >= 2: return the first language whose count is max_count
select_language(counts) ==
    LET max_count == CHOOSE m \in {counts[i][2] : i \in 1..Len(counts)} :
                         \A i \in 1..Len(counts) : counts[i][2] <= m
    IN  IF max_count >= 2
        THEN Some(counts[Min({i \in 1..Len(counts) : counts[i][2] = max_count})][1])
        ELSE None

analyze_code_content(code) ==
    select_language(pattern_counts(Strip(Lower(code))))

-----------------------------------------------------------------------------
(* CodeAnalyzer.detect_language, continued                                 *)

\* guess_lexer(code): ClassNotFound, or a lexer with a name and aliases
ClassNotFound == None
Lexer(name, aliases) == Some([name |-> name, aliases |-> aliases])

\* for key, value in language_map.items(): if key in lexer_name: return value
name_match(lexer_name) ==
    LET hits == {i \in 1..Len(language_map) : Contains(lexer_name, language_map[i][1])}
    IN  IF hits = {} THEN None ELSE Some(language_map[Min(hits)][2])

\* alias_hit looking the alias up as it is spelled
alias_hit_NoLower(alias) == alias \in Keys(language_map)

\* alias_lower in language_map
alias_hit(alias) == Lower(alias) \in Keys(language_map)

\* for alias in lexer.aliases: if alias_lower in language_map: return ...
alias_match(aliases) ==
    LET hits == {i \in 1..Len(aliases) : alias_hit(aliases[i])}
    IN  IF hits = {} THEN None
        ELSE Some(Get(language_map, Lower(aliases[Min(hits)])))

\* the default returning the lexer's own name
unknown_lexer_default_Name(lexer) == Lower(lexer.name)

\* return "python" after logging the unknown lexer
unknown_lexer_default(lexer) == "python"

\* detected_lang = self.analyze_code_content(code); if detected_lang: ...
content_fallback(code, default) ==
    LET detected_lang == analyze_code_content(code)
    IN  IF detected_lang # None /\ detected_lang[1] # ""
        THEN detected_lang[1]
        ELSE default

\* the returned tag, and whether guess_lexer and analyze_code_content ran
detect_language(code, filename, guess) ==
    IF ext_hit(filename)
    THEN [tag |-> Get(ext_map, file_ext(filename[1])),
          guessed |-> FALSE, scanned |-> FALSE]
    ELSE IF guess = ClassNotFound
    THEN [tag |-> content_fallback(code, "python"),
          guessed |-> TRUE, scanned |-> TRUE]
    ELSE LET lexer == guess[1]
             by_name == name_match(Lower(lexer.name))
             by_alias == alias_match(lexer.aliases)
         IN  IF by_name # None
             THEN [tag |-> by_name[1], guessed |-> TRUE, scanned |-> FALSE]
             ELSE IF by_alias # None
             THEN [tag |-> by_alias[1], guessed |-> TRUE, scanned |-> FALSE]
             ELSE [tag |-> content_fallback(code, unknown_lexer_default(lexer)),
                   guessed |-> TRUE, scanned |-> TRUE]

-----------------------------------------------------------------------------
(* CodeAnalyzer.validate_code_input                                        *)

suspicious_patterns == <<"eval(", "exec(", "__import__", "subprocess", "os.system">>

\* f"{n:,}": the decimal digits in groups of three, separated by commas
RECURSIVE GroupThousands(_)
GroupThousands(digits) ==
    IF Len(digits) <= 3 THEN digits
    ELSE GroupThousands(SubSeq(digits, 1, Len(digits) - 3))
             \o "," \o SubSeq(digits, Len(digits) - 2, Len(digits))

too_long_message ==
    "Code is too long. Maximum " \o GroupThousands(ToString(MAX_CODE_LENGTH))
        \o " characters allowed."

\* any(pattern in code.lower() for pattern in suspicious_patterns)
is_suspicious(code) ==
    LET code_lower == Lower(code)
    IN  \E i \in 1..Len(suspicious_patterns) : Contains(code_lower, suspicious_patterns[i])

\* is_too_long rejecting a text of exactly the maximum length
is_too_long_AtLimit(code) == Len(code) >= MAX_CODE_LENGTH

\* len(code) > MAX_CODE_LENGTH
is_too_long(code) == Len(code) > MAX_CODE_LENGTH

\* validate_code_input without the check for an empty text
validate_code_input_NoEmptyCheck(code) ==
    IF Len(code) > MAX_CODE_LENGTH
    THEN [is_valid |-> FALSE, msg |-> too_long_message, warned |-> FALSE]
    ELSE [is_valid |-> TRUE, msg |-> "Valid", warned |-> is_suspicious(code)]

\* (is_valid, message), and whether the warning was raised
validate_code_input(code) ==
    IF code = "" \/ Strip(code) = ""
    THEN [is_valid |-> FALSE, msg |-> "Code cannot be empty", warned |-> FALSE]
    ELSE IF is_too_long(code)
    THEN [is_valid |-> FALSE, msg |-> too_long_message, warned |-> FALSE]
    ELSE [is_valid |-> TRUE, msg |-> "Valid", warned |-> is_suspicious(code)]

-----------------------------------------------------------------------------
(* CodeAnalyzer.get_system_prompt                                          *)

base_prompts(lang) == <<
    <<"explain", "You are an expert " \o lang \o " programmer and teacher. Explain code clearly and comprehensively, breaking down complex concepts into understandable parts. Focus on what the code does, how it works, and why it's structured that way. Use markdown formatting for better readability.">>,
    <<"refactor", "You are a senior " \o lang \o " developer specializing in code optimization and best practices. Refactor the provided code to improve readability, performance, and maintainability while preserving functionality. Explain your changes using markdown formatting.">>,
    <<"debug", "You are an expert " \o lang \o " debugger. Analyze the code for potential bugs, errors, or issues. Provide specific suggestions for fixes and improvements. Use markdown formatting.">>,
    <<"optimize", "You are a " \o lang \o " performance optimization expert. Analyze the code for performance improvements, memory usage optimization, and efficiency gains. Provide optimized code with explanations.">>,
    <<"security", "You are a " \o lang \o " security expert. Analyze the code for security vulnerabilities, potential exploits, and security best practices. Provide secure alternatives where needed.">>,
    <<"followup", "You are a knowledgeable " \o lang \o " programming expert. Answer the specific question about the provided code with accuracy and clarity using markdown formatting.">> >>

\* get_system_prompt falling back to the last template of the table
get_system_prompt_LastDefault(lang, mode) ==
    IF mode \in Keys(base_prompts(lang))
    THEN Get(base_prompts(lang), mode)
    ELSE Get(base_prompts(lang), "followup")

\* base_prompts.get(mode, base_prompts['explain'])
get_system_prompt(lang, mode) ==
    IF mode \in Keys(base_prompts(lang))
    THEN Get(base_prompts(lang), mode)
    ELSE Get(base_prompts(lang), "explain")

-----------------------------------------------------------------------------
(* CodeAnalyzer.process_code                                               *)

\* fenced with the code stripped of surrounding whitespace
fenced_Stripped(lang, code) == FENCE \o lang \o "\n" \o Strip(code) \o "\n" \o FENCE

\* the fenced block of every user prompt: the fence labeled lang, the code, the fence
fenced(lang, code) == FENCE \o lang \o "\n" \o code \o "\n" \o FENCE

\* the if/elif chain on mode that builds user_prompt
user_prompt(code, mode, lang, followup_question) ==
    IF mode = "refactor"
    THEN "Refactor this " \o lang \o " code for better readability, performance, and best practices:\n\n"
             \o fenced(lang, code)
    ELSE IF mode = "debug"
    THEN "Debug this " \o lang \o " code and identify potential issues:\n\n"
             \o fenced(lang, code)
    ELSE IF mode = "optimize"
    THEN "Optimize this " \o lang \o " code for better performance:\n\n"
             \o fenced(lang, code)
    ELSE IF mode = "security"
    THEN "Analyze this " \o lang \o " code for security vulnerabilities:\n\n"
             \o fenced(lang, code)
    ELSE IF mode = "followup" /\ followup_question # None /\ followup_question[1] # ""
    THEN "Here's the " \o lang \o " code:\n\n" \o fenced(lang, code)
             \o "\n\nQuestion: " \o followup_question[1]
    ELSE "Explain this " \o lang \o " code step by step, including what it does, how it works, and any important concepts:\n\n"
             \o fenced(lang, code)

language_names == <<
    <<"en", "English">>, <<"es", "Spanish">>, <<"hi", "Hindi">>, <<"fr", "French">>,
    <<"de", "German">>, <<"zh", "Chinese">>, <<"ja", "Japanese">> >>

\* language_names.get(translate_to, translate_to)
lang_name(translate_to) ==
    IF translate_to \in Keys(language_names)
    THEN Get(language_names, translate_to)
    ELSE translate_to

\* wants_translation without the comparison with "none"
wants_translation_IgnoreNone(translate_to) ==
    translate_to # None /\ translate_to[1] # ""

\* if translate_to and translate_to != "none"
wants_translation(translate_to) ==
    translate_to # None /\ translate_to[1] # "" /\ translate_to[1] # "none"

\* what user_prompt += adds
translation_request(translate_to) ==
    IF wants_translation(translate_to)
    THEN "\n\nPlease provide your response in " \o lang_name(translate_to[1]) \o "."
    ELSE ""

\* user_prompt after the translation request has been added
user_instruction(code, mode, lang, translate_to, followup_question) ==
    user_prompt(code, mode, lang, followup_question) \o translation_request(translate_to)

\* full_prompt = f"{system_prompt}\n\n{user_prompt}"
full_prompt(code, mode, lang, translate_to, followup_question) ==
    get_system_prompt(lang, mode) \o "\n\n"
        \o user_instruction(code, mode, lang, translate_to, followup_question)

\* what model.generate_content does: a response with text, or an exception
Response(text) == [raised |-> FALSE, text |-> text]
Raised(message) == [raised |-> TRUE, text |-> message]

\* error_message looking for the markers in the text as it is
error_message_NoLower(e) ==
    IF Contains(e, "quota") \/ Contains(e, "rate limit")
    THEN CROSS \o " Error: API rate limit exceeded. Please try again later."
    ELSE IF Contains(e, "api key") \/ Contains(e, "authentication")
    THEN CROSS \o " Error: API authentication failed. Please check your API key."
    ELSE IF Contains(e, "safety")
    THEN CROSS \o " Error: Content was blocked by safety filters. Please try with different code."
    ELSE CROSS \o " Error: " \o e

\* error_message with a generic message that is the error text alone
error_message_Unmarked(e) ==
    LET text == Lower(e)
    IN  IF Contains(text, "quota") \/ Contains(text, "rate limit")
        THEN CROSS \o " Error: API rate limit exceeded. Please try again later."
        ELSE IF Contains(text, "api key") \/ Contains(text, "authentication")
        THEN CROSS \o " Error: API authentication failed. Please check your API key."
        ELSE IF Contains(text, "safety")
        THEN CROSS \o " Error: Content was blocked by safety filters. Please try with different code."
        ELSE e

\* the except branch: the message chosen from str(e).lower()
error_message(e) ==
    LET text == Lower(e)
    IN  IF Contains(text, "quota") \/ Contains(text, "rate limit")
        THEN CROSS \o " Error: API rate limit exceeded. Please try again later."
        ELSE IF Contains(text, "api key") \/ Contains(text, "authentication")
        THEN CROSS \o " Error: API authentication failed. Please check your API key."
        ELSE IF Contains(text, "safety")
        THEN CROSS \o " Error: Content was blocked by safety filters. Please try with different code."
        ELSE CROSS \o " Error: " \o e

not_initialized_message ==
    CROSS \o " Error: Gemini client not initialized. Please check your API key."

\* if not is_valid: return f"... Error: {error_msg}"
validation_failure(validation) == CROSS \o " Error: " \o validation.msg

\* the returned string, whether the warning was raised, the prompts handed to
\* generate_content and what it did; outcome is what it does if it is called
process_code(client, code, mode, lang, translate_to, followup_question, outcome) ==
    IF client = None
    THEN [result |-> not_initialized_message, warned |-> FALSE,
          sent |-> <<>>, answered |-> <<>>]
    ELSE LET validation == validate_code_input(code)
             prompt == full_prompt(code, mode, lang, translate_to, followup_question)
         IN  IF ~validation.is_valid
             THEN [result |-> validation_failure(validation),
                   warned |-> validation.warned, sent |-> <<>>, answered |-> <<>>]
             ELSE [result |-> IF outcome.raised
                              THEN error_message(outcome.text)
                              ELSE Strip(outcome.text),
                   warned |-> validation.warned,
                   sent |-> <<prompt>>,
                   answered |-> <<outcome>>]

-----------------------------------------------------------------------------
(* main: one run of the script, from the widgets' values to the history    *)

MAX_FILE_SIZE == 1024 * 1024

\* should_append without the test of the failure marker
should_append_Always(result) == TRUE

\* if not result.startswith(the cross mark): the result is shown and saved
should_append(result) == ~StartsWith(result, CROSS)

\* datetime.now().isoformat(), the clock read as the number of the record
timestamp(history) == Len(history) + 1

\* code[:200] + "..." if len(code) > 200 else code
code_preview(code) == IF Len(code) > 200 THEN SubSeq(code, 1, 200) \o "..." ELSE code

\* file_content[:200] + "..."
file_preview(file_content) ==
    (IF Len(file_content) > 200 THEN SubSeq(file_content, 1, 200) ELSE file_content) \o "..."

\* reversed(analysis_history[-10:])
last_analyses(history) ==
    LET n == Len(history)
        first == IF n > 10 THEN n - 9 ELSE 1
    IN  [i \in 1..(n - first + 1) |-> history[n - i + 1]]

\* what a run has done so far: the history, the lengths of the texts handed to
\* detect_language, the call of process_code and what it returned
Start(history) ==
    [history |-> history, detects |-> <<>>, called |-> None, processed |-> None,
     guessed |-> FALSE, scanned |-> FALSE]

\* the first tab: the pasted code is analyzed when the button is pressed
tab1(client, run, w, guess, outcome) ==
    IF w.analyze_btn /\ Strip(w.code_input) # ""
    THEN LET auto == w.language = "auto"
             detection == detect_language(w.code_input, None, guess)
             detected_lang == IF auto THEN detection.tag ELSE w.language
             p == process_code(client, w.code_input, w.analysis_mode, detected_lang,
                               Some(w.translation), None, outcome)
         IN  [history |->
                  IF should_append(p.result)
                  THEN Append(run.history,
                              [timestamp |-> timestamp(run.history),
                               mode |-> w.analysis_mode,
                               language |-> detected_lang,
                               code |-> w.code_input,
                               code_preview |-> code_preview(w.code_input),
                               result |-> p.result])
                  ELSE run.history,
              detects |-> run.detects \o (IF auto THEN <<Len(w.code_input)>> ELSE <<>>),
              called |-> Some([code |-> w.code_input, mode |-> w.analysis_mode,
                               lang |-> detected_lang,
                               translate_to |-> Some(w.translation),
                               followup_question |-> None]),
              processed |-> Some(p),
              guessed |-> auto /\ detection.guessed,
              scanned |-> auto /\ detection.scanned]
    ELSE run

\* the second tab: every uploaded file that is small enough and decodes is
\* shown with its language, and analyzed when its button is pressed
RECURSIVE tab2(_, _, _, _, _, _)
tab2(client, run, files, w, guess, outcome) ==
    IF files = <<>>
    THEN run
    ELSE LET uploaded_file == Head(files)
         IN  IF uploaded_file.size > MAX_FILE_SIZE \/ uploaded_file.text = None
             THEN tab2(client, run, Tail(files), w, guess, outcome)
             ELSE LET file_content == uploaded_file.text[1]
                      auto == w.language = "auto"
                      detection == detect_language(file_content, Some(uploaded_file.name), guess)
                      detected_lang == IF auto THEN detection.tag ELSE w.language
                      looked == IF auto THEN <<Len(file_content)>> ELSE <<>>
                      shown == [run EXCEPT !.detects = @ \o looked,
                                           !.guessed = @ \/ (auto /\ detection.guessed),
                                           !.scanned = @ \/ (auto /\ detection.scanned)]
                      p == process_code(client, file_content, w.analysis_mode, detected_lang,
                                        Some(w.translation), None, outcome)
                      analyzed ==
                          [shown EXCEPT
                              !.history =
                                  IF should_append(p.result)
                                  THEN Append(@, [timestamp |-> timestamp(run.history),
                                                  mode |-> w.analysis_mode,
                                                  language |-> detected_lang,
                                                  file |-> uploaded_file.name,
                                                  code |-> file_content,
                                                  code_preview |-> file_preview(file_content),
                                                  result |-> p.result])
                                  ELSE @,
                              !.detects = @ \o looked,
                              !.called = Some([code |-> file_content,
                                               mode |-> w.analysis_mode,
                                               lang |-> detected_lang,
                                               translate_to |-> Some(w.translation),
                                               followup_question |-> None]),
                              !.processed = Some(p)]
                  IN  CHOOSE after \in
                          {tab2(client, next, Tail(files), w, guess, outcome) :
                              next \in {IF w.file_btn = Some(uploaded_file.name)
                                        THEN analyzed ELSE shown}} : TRUE

\* the third tab: a question about one of the last analyses, when there is one
tab3(client, run, w, outcome) ==
    IF run.history = <<>>
    THEN run
    ELSE IF w.ask_btn /\ Strip(w.followup_question) # ""
    THEN LET analysis_item == last_analyses(run.history)[w.selected_analysis]
             original_code == analysis_item.code
             p == process_code(client, original_code, "followup", analysis_item.language,
                               Some(w.translation), Some(w.followup_question), outcome)
         IN  [run EXCEPT
                 !.history =
                     IF should_append(p.result)
                     THEN Append(@, [timestamp |-> timestamp(run.history),
                                     mode |-> "followup",
                                     language |-> analysis_item.language,
                                     question |-> w.followup_question,
                                     code |-> original_code,
                                     code_preview |-> code_preview(original_code),
                                     result |-> p.result])
                     ELSE @,
                 !.called = Some([code |-> original_code, mode |-> "followup",
                                  lang |-> analysis_item.language,
                                  translate_to |-> Some(w.translation),
                                  followup_question |-> Some(w.followup_question)]),
                 !.processed = Some(p)]
    ELSE run

\* the script from top to bottom: the three tabs in turn, each starting from
\* what the one before it has left
main(client, history, files, w, guess, outcome) ==
    CHOOSE after3 \in
        {tab3(client, after2, w, outcome) :
            after2 \in {tab2(client, after1, files, w, guess, outcome) :
                           after1 \in {tab1(client, Start(history), w, guess, outcome)}}} : TRUE

-----------------------------------------------------------------------------
(* The inputs of the model                                                 *)

MaxFrags == 2

\* pieces of code texts: language patterns, upper case, whitespace, a suspicious call
Fragments == {"const f = () => ", "{}", "class ", "def ", "echo ", "import ",
              "public ", "SELF.", "\n ", "eval(",
              "def __init__", "using namespace ", "<div><span>", "<?php echo ",
              "public class Main "}

RECURSIVE Concat(_)
Concat(pieces) == IF pieces = <<>> THEN "" ELSE Head(pieces) \o Concat(Tail(pieces))

\* every text made of at most MaxFrags fragments
CodeTexts == {Concat(pieces) : pieces \in UNION {[1..n -> Fragments] : n \in 0..MaxFrags}}

RECURSIVE Repeat(_, _)
Repeat(text, n) ==
    IF n = 0 THEN ""
    ELSE IF n % 2 = 0
         THEN LET half == Repeat(text, n \div 2) IN half \o half
         ELSE text \o Repeat(text, n - 1)

\* texts at the length limit and one character beyond it
AtLimit == Repeat("0", MAX_CODE_LENGTH)
OverLimit == AtLimit \o "0"
BlankOverLimit == Repeat(" ", MAX_CODE_LENGTH + 1)
SuspiciousAtLimit == "os.system" \o Repeat("0", MAX_CODE_LENGTH - 9)
SuspiciousOverLimit == "eval(" \o AtLimit
LongTexts == {AtLimit, OverLimit, BlankOverLimit, SuspiciousAtLimit, SuspiciousOverLimit}

\* code texts for detect_language
DetectTexts == {"", "print('hi')", "const f = () => {}", "<div>hi</div>",
                "class A:\n    def f(self):\n        pass\n", "<?php echo $_GET['a']; ?>"}

Filenames ==
    {None, Some(""), Some("Makefile"), Some("notes.txt"), Some("app.tsx"),
     Some("Main.JAVA"), Some("archive.tar.py"), Some("style.css.bak"),
     Some(".htm"), Some("trailing."), Some("py")}
        \cup {Some("file." \o ext_map[i][1]) : i \in 1..Len(ext_map)}

\* what guess_lexer may do: fail, or return a lexer
Guesses ==
    {ClassNotFound}
        \cup {Lexer(language_map[i][1], <<>>) : i \in 1..Len(language_map)}
        \cup {Lexer("Python", <<"python", "py", "sage", "python3", "py3">>),
              Lexer("CSS", <<"css">>),
              Lexer("HTML+PHP", <<"html+php">>),
              Lexer("Text only", <<"text">>),
              Lexer("Mako", <<"mako">>),
              Lexer("Mako", <<"mako", "JS">>),
              Lexer("Mako", <<"mako-php", "xhtml5">>),
              Lexer("Mako", <<"mako-java", "sass", "php">>),
              Lexer("Bash", <<>>)}

\* the arguments of process_code
ProcTexts == {"", " \n", "print('hi')", " x = 1\n", "eval(input())"}
Modes == {"explain", "refactor", "debug", "optimize", "security", "followup",
          "summarize", "Refactor"}
Langs == {"python", "cpp"}
Translations == {None, Some(""), Some("none"), Some("en"), Some("es"), Some("hi"),
                 Some("fr"), Some("de"), Some("zh"), Some("ja"), Some("pt"), Some("NONE")}
Questions == {None, Some(""), Some("Why is it slow?")}

ProcessArgs ==
    [code : ProcTexts, mode : Modes, lang : Langs,
     translate_to : Translations, followup_question : Questions]

\* calls with a text at the length limit and beyond it
LongProcessArgs ==
    [code : {AtLimit, OverLimit}, mode : {"explain", "followup"}, lang : {"python"},
     translate_to : {None, Some("es")}, followup_question : {Some("Why is it slow?")}]

\* what generate_content may do
Outcomes ==
    {Response("  **Analysis**\n\nIt prints.\n"),
     Raised("429 Quota exceeded for this project"),
     Raised("Invalid API key provided"),
     Raised("Response blocked for SAFETY reasons"),
     Raised("Connection reset by peer"),
     Raised("Rate limit reached"),
     Raised("Authentication failed"),
     Raised("Quota exceeded for this API key"),
     Raised("Authentication request blocked by the safety policy")}

\* the calls of process_code: its arguments and what generate_content would do
ProcessCalls ==
    (ProcessArgs \X Outcomes)
        \cup (LongProcessArgs \X {Response("  **Analysis**\n\nIt prints.\n")})

\* the longest history of the model
MaxHistory == 2

\* the values of the sidebar: two of the five modes, auto-detection and one of
\* the seven languages, no translation and one of the seven output languages
SidebarSettings ==
    [analysis_mode : {"explain", "security"}, language : {"auto", "cpp"},
     translation : {"none", "es"}]

\* a pasted text of 240 characters
Snippet == Repeat("x = 1\n", 40)

\* what the text area of the first tab may hold, with what guess_lexer would
\* return for it
Pastes ==
    {<<"", ClassNotFound>>,
     <<" \n", ClassNotFound>>,
     <<"print('hi')", ClassNotFound>>,
     <<Snippet, Lexer("CSS", <<"css">>)>>,
     <<OverLimit, Lexer("Python", <<"python", "py", "sage", "python3", "py3">>)>>}

\* an uploaded file: its name, its size in bytes and its text, None when the
\* bytes are not UTF-8
UploadedFile(name, size, text) == [name |-> name, size |-> size, text |-> text]

PyFile == UploadedFile("hello.py", 11, Some("print('hi')"))
BigFile == UploadedFile("Bundle.JS", MAX_CODE_LENGTH + 1, Some(OverLimit))
EmptyFile == UploadedFile("empty.html", 0, Some(""))
BinaryFile == UploadedFile("logo.php", 2048, None)
HugeFile == UploadedFile("dump.css", MAX_FILE_SIZE + 1, None)

\* what the file uploader may hold
Uploads == {<<>>, <<PyFile>>, <<BigFile>>, <<BinaryFile, PyFile>>, <<HugeFile, EmptyFile>>}

\* what the text area of the third tab may hold
FollowupTexts == {" \n", "Why is it slow?"}

\* what generate_content may do during a run of main
RunOutcomes ==
    {Response("  **Analysis**\n\nIt prints.\n"),
     Response(CROSS \o " I cannot help with that."),
     Raised("Connection reset by peer")}

\* the widgets' values of a run: the sidebar, the text areas and the buttons
Widgets(settings, code_input, analyze_btn, file_btn, selected_analysis, followup_question, ask_btn) ==
    [analysis_mode |-> settings.analysis_mode, language |-> settings.language,
     translation |-> settings.translation, code_input |-> code_input,
     analyze_btn |-> analyze_btn, file_btn |-> file_btn,
     selected_analysis |-> selected_analysis,
     followup_question |-> followup_question, ask_btn |-> ask_btn]

-----------------------------------------------------------------------------
(* The state machine: one action per method of CodeAnalyzer                *)

Idle ==
    /\ pc = "idle"
    /\ op = "none"
    /\ args = <<>>
    /\ ret = <<>>
    /\ guess_called = FALSE
    /\ scan_called = FALSE
    /\ warned = FALSE
    /\ sent = <<>>
    /\ answered = <<>>
    /\ detect_lengths = <<>>
    /\ called = <<>>

\* initialize_session_state: CodeAnalyzer() (initialize_gemini leaves self.model
\* None when it fails) and an empty history; no file is uploaded yet
Init ==
    /\ model \in {None, Some("gemini-2.0-flash-exp")}
    /\ analysis_history = <<>>
    /\ uploaded_files = <<>>
    /\ Idle

DetectLanguage ==
    /\ pc = "idle"
    /\ \E code \in DetectTexts, filename \in Filenames, guess \in Guesses :
          LET r == detect_language(code, filename, guess)
          IN  /\ op' = "detect_language"
              /\ args' = [code |-> code, filename |-> filename, guess |-> guess]
              /\ ret' = r.tag
              /\ guess_called' = r.guessed
              /\ scan_called' = r.scanned
    /\ pc' = "returned"
    /\ UNCHANGED <<model, warned, sent, answered>>
    /\ UNCHANGED session

AnalyzeCodeContent ==
    /\ pc = "idle"
    /\ \E code \in CodeTexts :
          /\ op' = "analyze_code_content"
          /\ args' = [code |-> code]
          /\ ret' = analyze_code_content(code)
    /\ pc' = "returned"
    /\ scan_called' = TRUE
    /\ UNCHANGED <<model, guess_called, warned, sent, answered>>
    /\ UNCHANGED session

ValidateCodeInput ==
    /\ pc = "idle"
    /\ \E code \in CodeTexts \cup LongTexts :
          LET r == validate_code_input(code)
          IN  /\ op' = "validate_code_input"
              /\ args' = [code |-> code]
              /\ ret' = <<r.is_valid, r.msg>>
              /\ warned' = r.warned
    /\ pc' = "returned"
    /\ UNCHANGED <<model, guess_called, scan_called, sent, answered>>
    /\ UNCHANGED session

ProcessCode ==
    /\ pc = "idle"
    /\ \E call \in ProcessCalls :
          LET a == call[1]
              r == process_code(model, a.code, a.mode, a.lang, a.translate_to,
                                a.followup_question, call[2])
          IN  /\ op' = "process_code"
              /\ args' = a
              /\ ret' = r.result
              /\ warned' = r.warned
              /\ sent' = r.sent
              /\ answered' = r.answered
    /\ pc' = "returned"
    /\ UNCHANGED <<model, guess_called, scan_called>>
    /\ UNCHANGED session

\* the caller takes the value; the analyzer is ready for the next call
Return ==
    /\ pc = "returned"
    /\ pc' = "idle"
    /\ op' = "none"
    /\ args' = <<>>
    /\ ret' = <<>>
    /\ guess_called' = FALSE
    /\ scan_called' = FALSE
    /\ warned' = FALSE
    /\ sent' = <<>>
    /\ answered' = <<>>
    /\ detect_lengths' = <<>>
    /\ called' = <<>>
    /\ UNCHANGED <<model, analysis_history, uploaded_files>>

Next == DetectLanguage \/ AnalyzeCodeContent \/ ValidateCodeInput \/ ProcessCode \/ Return

Spec == Init /\ [][Next]_vars

-----------------------------------------------------------------------------
(* The state machine of the page: one action per user event, each a run of *)
(* main                                                                    *)

\* the script runs with these widget values and leaves its effects
Rerun(event, w, files, guess, outcome) ==
    \E r \in {main(model, analysis_history, files, w, guess, outcome)} :
        /\ op' = event
        /\ args' = w
        /\ uploaded_files' = files
        /\ analysis_history' = r.history
        /\ detect_lengths' = r.detects
        /\ called' = r.called
        /\ ret' = IF r.processed = None THEN None ELSE Some(r.processed[1].result)
        /\ warned' = (r.processed # None /\ r.processed[1].warned)
        /\ sent' = IF r.processed = None THEN <<>> ELSE r.processed[1].sent
        /\ answered' = IF r.processed = None THEN <<>> ELSE r.processed[1].answered
        /\ guess_called' = r.guessed
        /\ scan_called' = r.scanned
        /\ pc' = "returned"
        /\ UNCHANGED model

\* the page waits for an event, and the history has room for one more record
Waiting == pc = "idle" /\ Len(analysis_history) < MaxHistory

\* the button of the first tab is pressed
AnalyzeCode ==
    /\ Waiting
    /\ \E settings \in SidebarSettings, paste \in Pastes, outcome \in RunOutcomes :
          Rerun("analyze_code",
                Widgets(settings, paste[1], TRUE, None, 1, "", FALSE),
                uploaded_files, paste[2], outcome)

\* files are put into the uploader of the second tab, or taken out of it
UploadFiles ==
    /\ Waiting
    /\ \E settings \in SidebarSettings, files \in Uploads :
          Rerun("upload_files",
                Widgets(settings, "", FALSE, None, 1, "", FALSE),
                files, ClassNotFound, Response(""))

\* the button of a file shown in the second tab is pressed
AnalyzeFile ==
    /\ Waiting
    /\ \E settings \in SidebarSettings, i \in 1..Len(uploaded_files),
          outcome \in RunOutcomes :
          /\ uploaded_files[i].size <= MAX_FILE_SIZE
          /\ uploaded_files[i].text # None
          /\ Rerun("analyze_file",
                   Widgets(settings, "", FALSE, Some(uploaded_files[i].name), 1, "", FALSE),
                   uploaded_files, ClassNotFound, outcome)

\* the button of the third tab is pressed; the tab shows it when there is a history
AskQuestion ==
    /\ Waiting
    /\ analysis_history # <<>>
    /\ \E settings \in SidebarSettings,
          selected_analysis \in 1..Len(last_analyses(analysis_history)),
          followup_question \in FollowupTexts, outcome \in RunOutcomes :
          Rerun("ask_question",
                Widgets(settings, "", FALSE, None, selected_analysis,
                        followup_question, TRUE),
                uploaded_files, ClassNotFound, outcome)

NextUI == AnalyzeCode \/ UploadFiles \/ AnalyzeFile \/ AskQuestion \/ Return

SpecUI == Init /\ [][NextUI]_vars

-----------------------------------------------------------------------------
(* Properties of detect_language                                           *)

Detected == pc = "returned" /\ op = "detect_language"

\* the extension table as the specification lists it
ListedExtensions == {
    <<"py", "python">>,
    <<"js", "javascript">>, <<"jsx", "javascript">>, <<"ts", "javascript">>,
    <<"tsx", "javascript">>,
    <<"cpp", "cpp">>, <<"cxx", "cpp">>, <<"cc", "cpp">>, <<"c", "cpp">>,
    <<"h", "cpp">>, <<"hpp", "cpp">>,
    <<"java", "java">>,
    <<"html", "html">>, <<"htm", "html">>,
    <<"css", "css">>, <<"scss", "css">>, <<"sass", "css">>, <<"less", "css">>,
    <<"php", "php">>, <<"php3", "php">>, <<"php4", "php">>, <<"php5", "php">> }

\* the lowercased text after the last '.' of name is ext (ext holds no '.')
HasExtension(name, ext) ==
    LET l == Lower(name)
    IN  Len(l) > Len(ext) /\ SubSeq(l, Len(l) - Len(ext), Len(l)) = "." \o ext

\* the filename names a listed extension
ListedFilename(filename) ==
    filename # None /\ \E e \in ListedExtensions : HasExtension(filename[1], e[1])

LanguageTags == {"python", "javascript", "cpp", "java", "html", "css", "php"}

\* C1: for a filename whose lowercased text after the last '.' is a listed
\* extension, detect_language returns the tag listed for it, whatever the code
\* and the guesser's outcome are, and calls neither guess_lexer nor the
\* content scan.
C1_ExtensionDominates ==
    (Detected /\ args.filename # None) =>
        \A e \in ListedExtensions :
            HasExtension(args.filename[1], e[1]) =>
                ret = e[2] /\ ~guess_called /\ ~scan_called

\* C1's case: app.tsx with code that looks like PHP and a guesser that says CSS
C1_Witness ==
    /\ Detected
    /\ args.filename = Some("app.tsx")
    /\ args.code = "<?php echo $_GET['a']; ?>"
    /\ args.guess = Lexer("CSS", <<"css">>)
    /\ ret = "javascript"

\* C2: detect_language returns one of the seven language tags for every code
\* text, every filename (absent, without extension, with an unknown or a known
\* extension) and every outcome of the guesser (a lexer or ClassNotFound).
C2_AlwaysATag == Detected => ret \in LanguageTags

\* C2's case: no filename, a lexer no table entry matches, the tag from the scan
C2_Witness ==
    /\ Detected
    /\ args.filename = None
    /\ args.guess = Lexer("Text only", <<"text">>)
    /\ args.code = "const f = () => {}"
    /\ scan_called
    /\ ret = "javascript"

\* the guesser's outcome matches no entry of the mapping table
NoTableMatch(guess) ==
    \/ guess = ClassNotFound
    \/ /\ guess # ClassNotFound
       /\ \A k \in Keys(language_map) : ~Contains(Lower(guess[1].name), k)
       /\ \A i \in 1..Len(guess[1].aliases) :
              Lower(guess[1].aliases[i]) \notin Keys(language_map)

\* the largest count of the content scan
MaxCount(code) ==
    LET counts == pattern_counts(Strip(Lower(code)))
    IN  CHOOSE m \in {counts[i][2] : i \in 1..Len(counts)} :
            \A i \in 1..Len(counts) : counts[i][2] <= m

\* C3: detect_language returns python when the whole chain is exhausted: no
\* filename or no listed extension, the guesser fails or returns a lexer no
\* table entry matches, and the content scan's maximum count is below 2.
C3_DefaultsToPython ==
    (/\ Detected
     /\ ~ListedFilename(args.filename)
     /\ NoTableMatch(args.guess)
     /\ MaxCount(args.code) < 2) => ret = "python"

\* C3's case: empty code, no filename, the guesser fails
C3_Witness ==
    /\ Detected
    /\ args.code = ""
    /\ args.filename = None
    /\ args.guess = ClassNotFound
    /\ guess_called /\ scan_called
    /\ ret = "python"

\* C4: with no filename hit, a lexer whose lowercased name is a key of the
\* mapping table makes detect_language return the tag the table gives that key.
C4_NameGivesTableTag ==
    (/\ Detected
     /\ ~ListedFilename(args.filename)
     /\ args.guess # ClassNotFound
     /\ Lower(args.guess[1].name) \in Keys(language_map))
        => ret = Get(language_map, Lower(args.guess[1].name))

\* no key of the mapping table is contained in the lexer's lowercased name
NameUnmatched(guess) ==
    /\ guess # ClassNotFound
    /\ \A k \in Keys(language_map) : ~Contains(Lower(guess[1].name), k)

\* the tags of the keys contained in some lowercased alias
ContainedAliasTags(aliases) ==
    {Get(language_map, k) :
        k \in {key \in Keys(language_map) :
                  \E i \in 1..Len(aliases) : Contains(Lower(aliases[i]), key)}}

\* C5 as stated: when no key is contained in the lexer's name and some key is a
\* substring of some lowercased alias, the tag of such a key is returned and the
\* content scan is not reached.
C5_AliasContainment ==
    (/\ Detected
     /\ ~ListedFilename(args.filename)
     /\ NameUnmatched(args.guess)
     /\ ContainedAliasTags(args.guess[1].aliases) # {})
        => /\ ret \in ContainedAliasTags(args.guess[1].aliases)
           /\ ~scan_called

\* the positions of the aliases that are, lowercased, keys of the mapping table
KeyAliases(aliases) == {i \in 1..Len(aliases) : Lower(aliases[i]) \in Keys(language_map)}

\* C5 as amended: when no key is contained in the lexer's name, each lowercased
\* alias is looked up in the mapping table as a whole key: if some alias is a
\* key, the tag of the first such alias is returned and the content scan is not
\* reached; if none is, the content scan is reached, even when an alias
\* contains a key.
C5_AliasLookup ==
    (/\ Detected
     /\ ~ListedFilename(args.filename)
     /\ NameUnmatched(args.guess))
        => LET aliases == args.guess[1].aliases
           IN  IF KeyAliases(aliases) # {}
               THEN /\ ret = Get(language_map, Lower(aliases[Min(KeyAliases(aliases))]))
                    /\ ~scan_called
               ELSE scan_called

\* C5's case: the second alias, JS, is a key once lowercased
C5_Witness ==
    /\ Detected
    /\ args.filename = None
    /\ args.guess = Lexer("Mako", <<"mako", "JS">>)
    /\ ret = "javascript"
    /\ ~scan_called

-----------------------------------------------------------------------------
(* Properties of analyze_code_content                                      *)

Scanned == pc = "returned" /\ op = "analyze_code_content"

\* the count of a language in the counts of the content scan
CountOf(counts, lang) == counts[CHOOSE i \in 1..Len(counts) : counts[i][1] = lang][2]

\* the fixed order of the seven languages
ScanOrder == <<"javascript", "python", "java", "cpp", "html", "css", "php">>
PlaceOf(lang) == CHOOSE i \in 1..Len(ScanOrder) : ScanOrder[i] = lang

\* C6 as stated: analyze_code_content returns a language only when its count is
\* at least 2 and strictly greater than the count of each other language, and
\* returns no result when the maximum count is below 2.
C6_StrictMaximum ==
    Scanned =>
        LET counts == pattern_counts(Strip(Lower(args.code)))
        IN  /\ ret # None =>
                  /\ CountOf(counts, ret[1]) >= 2
                  /\ \A other \in LanguageTags \ {ret[1]} :
                         CountOf(counts, ret[1]) > CountOf(counts, other)
            /\ MaxCount(args.code) < 2 => ret = None

\* C6 as amended: analyze_code_content returns a language only when its count
\* is at least 2, at least the count of each other language and strictly
\* greater than the count of each language before it in the order javascript,
\* python, java, cpp, html, css, php; it returns no result when the maximum
\* count is below 2.
C6_MaximumFirstInOrder ==
    Scanned =>
        LET counts == pattern_counts(Strip(Lower(args.code)))
        IN  /\ ret # None =>
                  /\ ret[1] \in LanguageTags
                  /\ CountOf(counts, ret[1]) >= 2
                  /\ \A other \in LanguageTags :
                         /\ CountOf(counts, ret[1]) >= CountOf(counts, other)
                         /\ PlaceOf(other) < PlaceOf(ret[1]) =>
                                CountOf(counts, ret[1]) > CountOf(counts, other)
            /\ MaxCount(args.code) < 2 => ret = None

\* C6's case: javascript and css both count 2, javascript is returned
C6_Witness ==
    /\ Scanned
    /\ args.code = "const f = () => {}"
    /\ CountOf(pattern_counts(Strip(Lower(args.code))), "javascript") = 2
    /\ CountOf(pattern_counts(Strip(Lower(args.code))), "css") = 2
    /\ ret = Some("javascript")

-----------------------------------------------------------------------------
(* Properties of validate_code_input                                       *)

Validated == pc = "returned" /\ op = "validate_code_input"

\* the text is empty or holds whitespace only
Blank(code) == \A i \in 1..Len(code) : SubSeq(code, i, i) \in Whitespace

\* the three results of the validator
EmptyFailure == <<FALSE, "Code cannot be empty">>
TooLongFailure == <<FALSE, "Code is too long. Maximum 50,000 characters allowed.">>
Success == <<TRUE, "Valid">>

\* C7: validate_code_input returns the Empty failure exactly for an empty or
\* whitespace-only text (whatever its length), the TooLong failure, whose
\* message states the limit 50,000, exactly for a text that is not blank and
\* longer than 50,000 characters, and success for every other text, one of
\* exactly 50,000 characters included; a suspicious substring changes none of
\* this.
C7_ValidationResult ==
    Validated =>
        ret = IF Blank(args.code) THEN EmptyFailure
              ELSE IF Len(args.code) > 50000 THEN TooLongFailure
              ELSE Success

\* C7's case: a text of exactly 50,000 characters that calls os.system is
\* valid, and the warning is raised
C7_Witness ==
    /\ Validated
    /\ Len(args.code) = 50000
    /\ Contains(SubSeq(args.code, 1, 20), "os.system")
    /\ warned
    /\ ret = Success

-----------------------------------------------------------------------------
(* Properties of process_code                                              *)

Processed == pc = "returned" /\ op = "process_code"

\* the code fails validation
Invalid(code) == Blank(code) \/ Len(code) > 50000

\* the failure string of a text that fails validation
ValidationError(code) ==
    CROSS \o " Error: " \o (IF Blank(code) THEN EmptyFailure[2] ELSE TooLongFailure[2])

\* C8 as stated: when the code fails validation, process_code returns the
\* validation error message and does not call generate_content, whether the
\* model client is initialized or not.
C8_ValidationErrorWhateverClient ==
    (Processed /\ Invalid(args.code)) =>
        /\ ret = ValidationError(args.code)
        /\ sent = <<>>

\* C8 as amended: when the code fails validation, process_code does not call
\* generate_content; it returns the validation error message when the model
\* client is initialized, and the client-not-initialized message when it is not.
C8_NoCallOnInvalidCode ==
    (Processed /\ Invalid(args.code)) =>
        /\ sent = <<>>
        /\ ret = IF model # None
                 THEN ValidationError(args.code)
                 ELSE CROSS \o " Error: Gemini client not initialized. Please check your API key."

\* C8's case: an initialized client and a text one character over the limit
C8_Witness ==
    /\ Processed
    /\ model # None
    /\ Len(args.code) = 50001
    /\ ret = CROSS \o " Error: Code is too long. Maximum 50,000 characters allowed."
    /\ sent = <<>>

\* C9: for every mode (the six modes, followup with or without a question, an
\* unrecognized mode), every language tag and every valid code, the prompt
\* handed to generate_content holds the fence labeled with the language tag,
\* then the code unchanged, then the closing fence; with an initialized client
\* and valid code exactly one prompt is handed over.
C9_PromptEmbedsCode ==
    Processed =>
        /\ (model # None /\ ~Invalid(args.code)) => Len(sent) = 1
        /\ \A i \in 1..Len(sent) :
               Contains(sent[i],
                        FENCE \o args.lang \o "\n" \o args.code \o "\n" \o FENCE)

\* C9's case: an unrecognized mode and code with whitespace around it
C9_Witness ==
    /\ Processed
    /\ args.mode = "summarize"
    /\ args.code = " x = 1\n"
    /\ args.lang = "cpp"
    /\ Len(sent) = 1
    /\ Contains(sent[1], FENCE \o "cpp\n x = 1\n\n" \o FENCE)

\* the number of places of text where part occurs
Occurrences(text, part) ==
    Cardinality({i \in 1..(Len(text) - Len(part) + 1) :
                    SubSeq(text, i, i + Len(part) - 1) = part})

EndsWith(text, suffix) ==
    Len(suffix) <= Len(text)
        /\ SubSeq(text, Len(text) - Len(suffix) + 1, Len(text)) = suffix

\* the language the translation sentence names for a target
NamedLanguage(target) ==
    CASE target = "en" -> "English" [] target = "es" -> "Spanish"
      [] target = "hi" -> "Hindi"   [] target = "fr" -> "French"
      [] target = "de" -> "German"  [] target = "zh" -> "Chinese"
      [] target = "ja" -> "Japanese" [] OTHER -> target

\* C10: the prompt handed to generate_content holds the translation sentence
\* zero times when the target is absent, empty or none, and once, at its end,
\* otherwise; the sentence names English, Spanish, Hindi, French, German,
\* Chinese or Japanese for en, es, hi, fr, de, zh, ja and repeats any other
\* target as it is.
C10_TranslationSentence ==
    Processed =>
        \A i \in 1..Len(sent) :
            LET target == args.translate_to
                n == Occurrences(sent[i], "Please provide your response in ")
            IN  IF target = None \/ target = Some("") \/ target = Some("none")
                THEN n = 0
                ELSE /\ n = 1
                     /\ EndsWith(sent[i], "\n\nPlease provide your response in "
                                              \o NamedLanguage(target[1]) \o ".")

\* C10's case: the target pt, which the table does not hold, is repeated
C10_Witness ==
    /\ Processed
    /\ args.translate_to = Some("pt")
    /\ Len(sent) = 1
    /\ EndsWith(sent[1], FENCE \o "\n\nPlease provide your response in pt.")

-----------------------------------------------------------------------------
(* Properties of the mode tables                                           *)

RecognizedModes == {"explain", "refactor", "debug", "optimize", "security", "followup"}

\* the persona and the task framing of mode explain, as the source writes them
ExplainPersona(lang) ==
    "You are an expert " \o lang \o " programmer and teacher. Explain code clearly and comprehensively, breaking down complex concepts into understandable parts. Focus on what the code does, how it works, and why it's structured that way. Use markdown formatting for better readability."
ExplainFraming(lang) ==
    "Explain this " \o lang \o " code step by step, including what it does, how it works, and any important concepts:\n\n"

\* a call that got as far as handing a prompt to the model
Prompted == Processed /\ Len(sent) = 1

\* C11: for a mode outside the six recognized modes the prompt is built without
\* failure and is the prompt of mode explain for the same language, code and
\* translation target: the explain persona, a blank line, the explain framing
\* with the fenced code, and the translation request if one is asked for.
C11_UnrecognizedModeIsExplain ==
    (Processed /\ args.mode \notin RecognizedModes /\ model # None /\ ~Invalid(args.code))
        => /\ Len(sent) = 1
           /\ sent[1] = full_prompt(args.code, "explain", args.lang, args.translate_to,
                                    args.followup_question)
           /\ sent[1] = ExplainPersona(args.lang) \o "\n\n" \o ExplainFraming(args.lang)
                            \o fenced(args.lang, args.code)
                            \o translation_request(args.translate_to)

C11_Witness ==
    /\ Prompted
    /\ args.mode = "summarize"
    /\ args.translate_to = Some("fr")
    /\ args.followup_question = Some("Why is it slow?")
    /\ sent[1] = ExplainPersona(args.lang) \o "\n\n" \o ExplainFraming(args.lang)
                     \o fenced(args.lang, args.code)
                     \o "\n\nPlease provide your response in French."

-----------------------------------------------------------------------------
(* Properties of the except branch of process_code                         *)

\* generate_content was called and raised
Failed == Processed /\ answered # <<>> /\ answered[1].raised

RateLimitMessage == CROSS \o " Error: API rate limit exceeded. Please try again later."
AuthenticationMessage == CROSS \o " Error: API authentication failed. Please check your API key."
SafetyMessage ==
    CROSS \o " Error: Content was blocked by safety filters. Please try with different code."
GenericMessage(text) == CROSS \o " Error: " \o text

HasRateLimitMarker(low) == Contains(low, "quota") \/ Contains(low, "rate limit")
HasAuthenticationMarker(low) == Contains(low, "api key") \/ Contains(low, "authentication")
HasSafetyMarker(low) == Contains(low, "safety")

\* C13 as stated: the lowercased error text of a failed model call decides the
\* message: 'quota' or 'rate limit' gives the rate-limit message, 'api key' or
\* 'authentication' gives the authentication message, 'safety' gives the
\* safety-filter message, none of the five markers gives the generic message
\* carrying the error text; the returned string is one of the four.
C13_ClassifiedByMarker ==
    Failed =>
        LET text == answered[1].text
            low == Lower(text)
        IN  /\ HasRateLimitMarker(low) => ret = RateLimitMessage
            /\ HasAuthenticationMarker(low) => ret = AuthenticationMessage
            /\ HasSafetyMarker(low) => ret = SafetyMessage
            /\ (~HasRateLimitMarker(low) /\ ~HasAuthenticationMarker(low)
                    /\ ~HasSafetyMarker(low)) => ret = GenericMessage(text)
            /\ ret \in {RateLimitMessage, AuthenticationMessage, SafetyMessage,
                         GenericMessage(text)}

\* C13 as amended: the three marker classes are tried in the order rate limit,
\* authentication, safety and the first class with a marker in the lowercased
\* error text decides the message; a text with none of the five markers gives
\* the generic message carrying the error text.
C13_FirstMarkerClassWins ==
    Failed =>
        LET text == answered[1].text
            low == Lower(text)
        IN  ret = IF HasRateLimitMarker(low) THEN RateLimitMessage
                  ELSE IF HasAuthenticationMarker(low) THEN AuthenticationMessage
                  ELSE IF HasSafetyMarker(low) THEN SafetyMessage
                  ELSE GenericMessage(text)

\* C13's case: an error text with markers of two classes
C13_Witness ==
    /\ Failed
    /\ answered[1].text = "Quota exceeded for this API key"
    /\ ret = RateLimitMessage

-----------------------------------------------------------------------------
(* Properties of ties in analyze_code_content                              *)

\* the languages whose count is the maximum
Tied(code) ==
    {lang \in LanguageTags :
        CountOf(pattern_counts(Strip(Lower(code))), lang) = MaxCount(code)}

\* the language of a set that comes first in the fixed order
FirstInOrder(langs) == CHOOSE lang \in langs : \A other \in langs : PlaceOf(lang) <= PlaceOf(other)

\* C15: when two or more languages share the maximum count and that count is
\* at least 2, analyze_code_content returns the tied language that comes first
\* in the order javascript, python, java, cpp, html, css, php; the result is
\* that language whenever the text is the same.
C15_TieGoesToFirstInOrder ==
    (Scanned /\ MaxCount(args.code) >= 2 /\ Cardinality(Tied(args.code)) >= 2)
        => ret = Some(FirstInOrder(Tied(args.code)))

\* C15's case: python and cpp both count 2 and cpp's patterns come first in the text
C15_Witness ==
    /\ Scanned
    /\ args.code = "using namespace def __init__"
    /\ MaxCount(args.code) = 2
    /\ Tied(args.code) = {"python", "cpp"}
    /\ ret = Some("python")

-----------------------------------------------------------------------------
(* Properties of the pairing of persona and task framing                   *)

\* how the persona of each mode opens
PersonaOpening(mode, lang) ==
    CASE mode = "explain"  -> "You are an expert " \o lang \o " programmer and teacher."
      [] mode = "refactor" -> "You are a senior " \o lang \o " developer"
      [] mode = "debug"    -> "You are an expert " \o lang \o " debugger."
      [] mode = "optimize" -> "You are a " \o lang \o " performance optimization expert."
      [] mode = "security" -> "You are a " \o lang \o " security expert."
      [] mode = "followup" -> "You are a knowledgeable " \o lang \o " programming expert."

\* how the task framing of each mode opens
FramingOpening(mode, lang) ==
    CASE mode = "explain"  -> "Explain this " \o lang \o " code step by step"
      [] mode = "refactor" -> "Refactor this " \o lang \o " code"
      [] mode = "debug"    -> "Debug this " \o lang \o " code"
      [] mode = "optimize" -> "Optimize this " \o lang \o " code"
      [] mode = "security" -> "Analyze this " \o lang \o " code for security vulnerabilities"
      [] mode = "followup" -> "Here's the " \o lang \o " code:"

\* an unrecognized mode counts as explain
EffectiveMode(mode) == IF mode \in RecognizedModes THEN mode ELSE "explain"

\* the user instruction of a prompt: what follows the first blank line
AfterFirstBlankLine(text) ==
    LET at == CHOOSE i \in 1..(Len(text) - 1) :
                  /\ SubSeq(text, i, i + 1) = "\n\n"
                  /\ \A j \in 1..(i - 1) : SubSeq(text, j, j + 1) # "\n\n"
    IN  SubSeq(text, at + 2, Len(text))

\* C16: in every prompt built by process_code the persona and the task framing
\* are those of the same mode (an unrecognized mode counting as explain),
\* whatever the follow-up question, an empty or absent one included.
C16_PersonaAndFramingOfSameMode ==
    Prompted =>
        /\ StartsWith(sent[1], PersonaOpening(EffectiveMode(args.mode), args.lang))
        /\ StartsWith(AfterFirstBlankLine(sent[1]),
                      FramingOpening(EffectiveMode(args.mode), args.lang))

-----------------------------------------------------------------------------
(* Properties of the page: the runs of main and the analysis history       *)

\* a run of main has ended
Ran == pc = "returned" /\ op \in {"analyze_code", "upload_files", "analyze_file", "ask_question"}

\* the step is a run of main that called process_code
RunCalls == pc = "idle" /\ called' # None

\* the call made by the step took a failure path: no client, a text that fails
\* validation, or an exception raised by generate_content
FailurePath ==
    \/ model = None
    \/ Invalid(called'[1].code)
    \/ (answered' # <<>> /\ answered'[1].raised)

\* C12: process_code never raises to its caller: a run of main that calls it
\* gets a value back, and on every failure path (client not initialized,
\* validation failure, exception of the model call) the value is a string that
\* starts with the failure marker and the session state (the analysis history,
\* the analyzer's client, the uploaded files) is left as it was.
C12_FailureIsAMarkedString ==
    [][RunCalls =>
          /\ ret' # None
          /\ FailurePath =>
                /\ StartsWith(ret'[1], CROSS)
                /\ analysis_history' = analysis_history
                /\ model' = model
                /\ uploaded_files' = uploaded_files]_vars

\* C12's case: with one analysis in the history, the model call of a follow-up
\* raised; the marked string came back and the history still has one record
C12_Witness ==
    /\ Ran
    /\ op = "ask_question"
    /\ called # None
    /\ answered # <<>> /\ answered[1].raised
    /\ ret = Some(CROSS \o " Error: Connection reset by peer")
    /\ Len(analysis_history) = 1

\* C14: in every sequence of user actions, detect_language is only called with
\* a code text of at most 50,000 characters.
C14_DetectionInputBounded ==
    \A i \in 1..Len(detect_lengths) : detect_lengths[i] <= 50000

\* C17: the analysis history only grows by appending at the end.  A run of main
\* whose call of process_code returned a result that does not start with the
\* failure marker appends exactly one record, with the complete code, the mode,
\* the language and the result of that call; every other step leaves the
\* history as it is, so no record is ever modified or removed; and a follow-up
\* question is only asked when the history is not empty.
C17_HistoryGrowsByAppending ==
    [][/\ IF RunCalls /\ ~StartsWith(ret'[1], CROSS)
          THEN /\ Len(analysis_history') = Len(analysis_history) + 1
               /\ SubSeq(analysis_history', 1, Len(analysis_history)) = analysis_history
               /\ LET record == analysis_history'[Len(analysis_history')]
                  IN  /\ record.mode = called'[1].mode
                      /\ record.language = called'[1].lang
                      /\ record.result = ret'[1]
                      /\ record.code = called'[1].code
                      /\ op' = "analyze_code" => record.code = args'.code_input
                      /\ op' = "analyze_file" =>
                             \E i \in 1..Len(uploaded_files) :
                                 /\ Some(uploaded_files[i].name) = args'.file_btn
                                 /\ Some(record.code) = uploaded_files[i].text
                      /\ op' = "ask_question" =>
                             record.code =
                                 last_analyses(analysis_history)[args'.selected_analysis].code
          ELSE analysis_history' = analysis_history
       /\ (RunCalls /\ op' = "ask_question") => analysis_history # <<>>]_vars

\* C17's case: a pasted text of more than 200 characters was analyzed, then a
\* question about it was answered: two records, both with the complete text
C17_Witness ==
    /\ Ran
    /\ op = "ask_question"
    /\ Len(analysis_history) = 2
    /\ analysis_history[1].code = Snippet
    /\ analysis_history[1].mode \in {"explain", "security"}
    /\ analysis_history[2].mode = "followup"
    /\ analysis_history[2].question = "Why is it slow?"
    /\ analysis_history[2].code = Snippet
    /\ analysis_history[2].result = ret[1]

=============================================================================
